---- MODULE Spec2Model ----
(***************************************************************************)
(* Model of action.go: the Command action and its routing keys, the        *)
(* MaybeNil decoder, the script action (EVALSHA with EVAL fallback) and    *)
(* the pipeline aggregator, the pool of command actions and a pipeline     *)
(* that is performed more than once.                                       *)
(*                                                                         *)
(* A Go string is a sequence of one-character strings, so that upper-      *)
(* casing and prefix tests are computed character by character.  A nil     *)
(* slice and an empty slice are both the empty sequence.                   *)
(***************************************************************************)
EXTENDS Integers, Sequences, FiniteSets, TLC

VARIABLES
    c,            \* the cmdAction under construction / use
    keys,         \* the result of the last c.Keys() call
    mn,           \* a MaybeNil value: Nil, EmptyArray, Rcv
    mnOut,        \* outcome of the last MaybeNil.UnmarshalRESP call
    ec,           \* an evalAction: sum, script, numKeys, args, eval
    epc,          \* position of evalAction.Perform
    submits,      \* requests handed to conn.EncodeDecode by evalAction.Perform
    evalErr,      \* the err variable of evalAction.Perform
    cmds,         \* pipeline.cmds
    mm,           \* pipeline.mm, the correlation list
    Conn,         \* pipeline.Conn, the embedded connection binding
    pc,           \* position of pipeline.Perform
    i,            \* loop index of the pass in progress
    w,            \* bytes written to the outer connection's writer, as tokens
    marshalCalls, \* indices of mm whose Marshaler was invoked, in order
    decodeCalls,  \* indices of mm whose Unmarshaler was invoked, in order
    connCalls,    \* number of EncodeDecode calls made on the real connection
    outerErr,     \* what the real connection's EncodeDecode returned
    passErrs,     \* the error slots of mm when that EncodeDecode returned
    perfErr,      \* the err variable of pipeline.Perform, and what it returns
    allDiscarded, \* the allDiscarded variable of pipeline.Perform
    marshalErrs,  \* the error slots of mm when p.MarshalRESP returned
    performs,     \* number of Perform calls made on the pipeline
    pool,         \* cmdActionPool: the cmdAction values put into it and not taken out
    use           \* what became of the command action c since Cmd or FlatCmd built it

vars == <<c, keys, mn, mnOut, ec, epc, submits, evalErr, cmds, mm, Conn, pc, i, w,
          marshalCalls, decodeCalls, connCalls, outerErr, passErrs, perfErr, allDiscarded,
          marshalErrs, performs, pool, use>>

cmdVars  == <<c, keys, pool, use>>
mnVars   == <<mn, mnOut>>
evalVars == <<ec, epc, submits, evalErr>>
pipeVars == <<cmds, mm, Conn, pc, i, w, marshalCalls, decodeCalls, connCalls,
              outerErr, passErrs, perfErr, allDiscarded, marshalErrs, performs>>

----------------------------------------------------------------------------
(* Bounds of the model. *)

\* longest argument list given to Cmd
MaxArgs == 4
\* the most command actions built one after the other by Cmd and FlatCmd
MaxBuilds == 3

----------------------------------------------------------------------------
(* Strings. *)

LowerCase == <<"a","b","c","d","e","f","g","h","i","j","k","l","m",
               "n","o","p","q","r","s","t","u","v","w","x","y","z">>
UpperCase == <<"A","B","C","D","E","F","G","H","I","J","K","L","M",
               "N","O","P","Q","R","S","T","U","V","W","X","Y","Z">>

ToUpperCh(ch) ==
    IF \E n \in DOMAIN LowerCase : LowerCase[n] = ch
    THEN UpperCase[CHOOSE n \in DOMAIN LowerCase : LowerCase[n] = ch]
    ELSE ch

\* upper-casing left out
ToUpperIdentity(s) == s

\* strings.ToUpper
ToUpper(s) == [n \in 1..Len(s) |-> ToUpperCh(s[n])]

ToLowerCh(ch) ==
    IF \E n \in DOMAIN UpperCase : UpperCase[n] = ch
    THEN LowerCase[CHOOSE n \in DOMAIN UpperCase : UpperCase[n] = ch]
    ELSE ch

\* lower-cased and capitalised spellings, used to draw command names
ToLower(s) == [n \in 1..Len(s) |-> ToLowerCh(s[n])]
Capitalised(s) == [n \in 1..Len(s) |-> IF n = 1 THEN ToUpperCh(s[n]) ELSE ToLowerCh(s[n])]

\* equality in place of the prefix test
HasPrefixEqual(s, prefix) == s = prefix

\* strings.HasPrefix
HasPrefix(s, prefix) ==
    /\ Len(s) >= Len(prefix)
    /\ SubSeq(s, 1, Len(prefix)) = prefix

\* sequences over S of length at most n
SeqsUpTo(S, n) == UNION {[1..k -> S] : k \in 0..n}

----------------------------------------------------------------------------
(* Command action: cmdAction, Cmd, FlatCmd, Keys. *)

noKeyCmds ==
    { <<"S","E","N","T","I","N","E","L">>,
      <<"C","L","U","S","T","E","R">>,
      <<"R","E","A","D","O","N","L","Y">>,
      <<"R","E","A","D","W","R","I","T","E">>,
      <<"A","S","K","I","N","G">>,
      <<"A","U","T","H">>,
      <<"E","C","H","O">>,
      <<"P","I","N","G">>,
      <<"Q","U","I","T">>,
      <<"S","E","L","E","C","T">>,
      <<"S","W","A","P","D","B">>,
      <<"K","E","Y","S">>,
      <<"M","I","G","R","A","T","E">>,
      <<"O","B","J","E","C","T">>,
      <<"R","A","N","D","O","M","K","E","Y">>,
      <<"W","A","I","T">>,
      <<"S","C","A","N">>,
      <<"E","V","A","L">>,
      <<"E","V","A","L","S","H","A">>,
      <<"S","C","R","I","P","T">>,
      <<"B","G","R","E","W","R","I","T","E","A","O","F">>,
      <<"B","G","S","A","V","E">>,
      <<"C","L","I","E","N","T">>,
      <<"C","O","M","M","A","N","D">>,
      <<"C","O","N","F","I","G">>,
      <<"D","B","S","I","Z","E">>,
      <<"D","E","B","U","G">>,
      <<"F","L","U","S","H","A","L","L">>,
      <<"F","L","U","S","H","D","B">>,
      <<"I","N","F","O">>,
      <<"L","A","S","T","S","A","V","E">>,
      <<"M","O","N","I","T","O","R">>,
      <<"R","O","L","E">>,
      <<"S","A","V","E">>,
      <<"S","H","U","T","D","O","W","N">>,
      <<"S","L","A","V","E","O","F">>,
      <<"S","L","O","W","L","O","G">>,
      <<"S","Y","N","C">>,
      <<"T","I","M","E">>,
      <<"D","I","S","C","A","R","D">>,
      <<"E","X","E","C">>,
      <<"M","U","L","T","I">>,
      <<"U","N","W","A","T","C","H">>,
      <<"W","A","T","C","H">> }
BITOP      == <<"B","I","T","O","P">>
XINFO      == <<"X","I","N","F","O">>
XGROUP     == <<"X","G","R","O","U","P">>
XREAD      == <<"X","R","E","A","D">>
XREADGROUP == <<"X","R","E","A","D","G","R","O","U","P">>
STREAMS    == <<"S","T","R","E","A","M","S">>
GET        == <<"G","E","T">>
SET        == <<"S","E","T">>

\* the zero cmdAction (new(cmdAction))
ZeroCmd ==
    [rcv |-> "nil", cmd |-> <<>>, args |-> <<>>,
     flat |-> FALSE, flatKey |-> <<<<>>>>, flatArgs |-> <<>>]

\* the composite literal of Cmd
CmdLit(rcv, cmd, args) ==
    [rcv |-> rcv, cmd |-> cmd, args |-> args,
     flat |-> FALSE, flatKey |-> <<<<>>>>, flatArgs |-> <<>>]

\* the composite literal of FlatCmd
FlatCmdLit(rcv, cmd, key, args) ==
    [rcv |-> rcv, cmd |-> cmd, args |-> <<>>,
     flat |-> TRUE, flatKey |-> <<key>>, flatArgs |-> args]

\* args[from:] of a Go slice, with 0-based from
SliceFrom(args, from) == SubSeq(args, from + 1, Len(args))

\* args[from:to] of a Go slice, 0-based, to exclusive
Slice(args, from, to) == SubSeq(args, from + 1, to)

\* findStreamsKeys with the ID count rounded up
findStreamsKeysRoundUp(args) ==
    IF \E n \in 1..Len(args) : ToUpper(args[n]) = STREAMS
    THEN LET n == CHOOSE k \in 1..Len(args) :
                      /\ ToUpper(args[k]) = STREAMS
                      /\ \A j \in 1..(k - 1) : ToUpper(args[j]) # STREAMS
             ids == (Len(SliceFrom(args, n)) + 1) \div 2
         IN  Slice(args, n, Len(args) - ids)
    ELSE <<>>

findStreamsKeys(args) ==
    IF \E n \in 1..Len(args) : ToUpper(args[n]) = STREAMS
    THEN LET n == CHOOSE k \in 1..Len(args) :
                      /\ ToUpper(args[k]) = STREAMS
                      /\ \A j \in 1..(k - 1) : ToUpper(args[j]) # STREAMS
             \* n is i+1 for the loop's 0-based i, so args[i+1:] starts after n
             ids == Len(SliceFrom(args, n)) \div 2
         IN  Slice(args, n, Len(args) - ids)
    ELSE <<>>

\* Keys with BITOP keeping its first argument and XINFO its first
CmdKeysFirstArg(a) ==
    IF a.flat THEN a.flatKey
    ELSE LET cmd == ToUpper(a.cmd) IN
         IF cmd = XREAD \/ cmd = XREADGROUP THEN findStreamsKeys(a.args)
         ELSE IF cmd \in noKeyCmds \/ Len(a.args) = 0 THEN <<>>
         ELSE Slice(a.args, 0, 1)

CmdKeys(a) ==
    IF a.flat THEN a.flatKey
    ELSE LET cmd == ToUpper(a.cmd) IN
         IF cmd = BITOP /\ Len(a.args) > 1 THEN SliceFrom(a.args, 1)
         ELSE IF cmd = XINFO
              THEN IF Len(a.args) < 2 THEN <<>> ELSE Slice(a.args, 1, 2)
         ELSE IF cmd = XGROUP /\ Len(a.args) > 1 THEN Slice(a.args, 1, 2)
         ELSE IF cmd = XREAD \/ cmd = XREADGROUP THEN findStreamsKeys(a.args)
         ELSE IF cmd \in noKeyCmds \/ Len(a.args) = 0 THEN <<>>
         ELSE Slice(a.args, 0, 1)

\* inputs drawn for Cmd and FlatCmd
RoutedNames == {BITOP, XINFO, XGROUP, XREAD, XREADGROUP, GET, SET}
CmdNames ==
    noKeyCmds \cup {ToLower(n) : n \in noKeyCmds}
              \cup RoutedNames \cup {ToLower(n) : n \in RoutedNames}
              \cup {Capitalised(n) : n \in RoutedNames \cup {<<"P","I","N","G">>}}
ArgTokens == {STREAMS, Capitalised(STREAMS), <<"s","1">>, <<"0">>}
\* XREAD COUNT 2 STREAMS s1 s2 0 0
ExampleStreamArgs ==
    << <<"C","O","U","N","T">>, <<"2">>, STREAMS, <<"s","1">>, <<"s","2">>, <<"0">>, <<"0">> >>
ArgLists == SeqsUpTo(ArgTokens, MaxArgs) \cup {ExampleStreamArgs}
FlatKeys == {<<"k","1">>, <<>>}
\* a FlatCmd argument, by the bulk strings it flattens into; bad: it cannot be marshaled
FlatArgLists ==
    { <<>>,
      << [elems |-> << <<"v">> >>, bad |-> FALSE] >>,
      << [elems |-> << <<"f">>, <<"v">> >>, bad |-> FALSE],
         [elems |-> << <<"x">> >>, bad |-> TRUE] >> }

NoKeys == [called |-> FALSE, val |-> <<>>]

\* use of a command action: at is "none" before any is built, "built" once
\* Cmd or FlatCmd returned it, then "decoded", "failed" or "skipped"; n counts
\* the actions built; form and given are the constructor and its arguments
NoUse == [at |-> "none", n |-> 0, form |-> "none", given |-> <<>>]

\* the sequence without its k-th element
RemoveAt(seq, k) == SubSeq(seq, 1, k - 1) \o SubSeq(seq, k + 1, Len(seq))

\* getCmdAction: the value cmdActionPool.Get hands out, the src-th of the
\* pool, or with src = 0 (Get returned nil) a new zero cmdAction
getCmdAction(src) == IF src = 0 THEN ZeroCmd ELSE pool[src]

\* an assignment of the literal that leaves a field alone where the literal
\* has the zero value
AssignNonZero(old, lit) ==
    [f \in DOMAIN lit |-> IF lit[f] = ZeroCmd[f] THEN old[f] ELSE lit[f]]

\* *c = cmdAction{...}: every field of the struct is assigned, those the
\* literal does not name to their zero value
Assign(old, lit) == lit

Cmd(rcv, cmd, args) ==
    \E src \in 0..Len(pool) :
        /\ c' = Assign(getCmdAction(src), CmdLit(rcv, cmd, args))
        /\ pool' = RemoveAt(pool, src)
        /\ use' = [at |-> "built", n |-> use.n + 1, form |-> "Cmd",
                   given |-> <<rcv, cmd, <<>>, args>>]
        /\ keys' = NoKeys
        /\ UNCHANGED <<mnVars, evalVars, pipeVars>>

FlatCmd(rcv, cmd, key, args) ==
    \E src \in 0..Len(pool) :
        /\ c' = Assign(getCmdAction(src), FlatCmdLit(rcv, cmd, key, args))
        /\ pool' = RemoveAt(pool, src)
        /\ use' = [at |-> "built", n |-> use.n + 1, form |-> "FlatCmd",
                   given |-> <<rcv, cmd, <<key>>, args>>]
        /\ keys' = NoKeys
        /\ UNCHANGED <<mnVars, evalVars, pipeVars>>

Keys ==
    /\ ~keys.called
    /\ keys' = [called |-> TRUE, val |-> CmdKeys(c)]
    /\ UNCHANGED <<c, pool, use, mnVars, evalVars, pipeVars>>

CmdInit ==
    /\ c = ZeroCmd
    /\ keys = NoKeys
    /\ pool = <<>>
    /\ use = NoUse

\* getCmdAction hands Cmd and FlatCmd a new cmdAction; each command is built once
CmdNext ==
    \/ /\ c = ZeroCmd
       /\ \E cmd \in CmdNames, args \in ArgLists : Cmd("rcv", cmd, args)
    \/ /\ c = ZeroCmd
       /\ \E cmd \in CmdNames, key \in FlatKeys, args \in FlatArgLists :
              FlatCmd("rcv", cmd, key, args)
    \/ Keys

----------------------------------------------------------------------------
(* Errors.  An error is a base error under wrap layers of resp.ErrDiscarded; *)
(* the nil error has no layer and base "nil".  ErrDiscarded{Err: e}.Err      *)
(* and errors.As(e, &errDiscarded) look at the outermost layer.              *)

\* deepest nesting of ErrDiscarded wrappers in an error the model draws
MaxWrap == 2

NilErr == [wrap |-> 0, base |-> "nil"]
Err(base) == [wrap |-> 0, base |-> base]
Discarded(e) == [wrap |-> e.wrap + 1, base |-> e.base]

\* errors.As(e, new(resp.ErrDiscarded))
IsDiscarded(e) == e.wrap > 0

\* errDiscarded.Err after errors.As(e, &errDiscarded)
Cause(e) == [wrap |-> e.wrap - 1, base |-> e.base]

BaseErrs == {"io", "app"}
PlainErrs == {Err(b) : b \in BaseErrs}
DiscardedErrs == {[wrap |-> n, base |-> b] : n \in 1..MaxWrap, b \in BaseErrs}
Errs == PlainErrs \cup DiscardedErrs

----------------------------------------------------------------------------
(* MaybeNil. *)

\* raw replies read off the wire; val is what a generic decode stores
Replies ==
    { [type |-> "nilbulk",    val |-> <<>>],
      [type |-> "nilarray",   val |-> <<>>],
      [type |-> "emptyarray", val |-> <<>>],
      [type |-> "bulk",       val |-> <<"v">>],
      [type |-> "int",        val |-> <<"7">>],
      [type |-> "array",      val |-> <<"a", "b">>],
      [type |-> "error",      val |-> <<>>] }

\* IsNil recognising the nil bulk string only
IsNilBulkOnly(rm) == rm.type = "nilbulk"

\* resp2.RawMessage.IsNil
IsNil(rm) == rm.type \in {"nilbulk", "nilarray"}

\* resp2.RawMessage.IsEmptyArray
IsEmptyArray(rm) == rm.type = "emptyarray"

\* rm.UnmarshalInto(resp2.Any{I: rcv}): the error and the receiver afterwards
UnmarshalInto(rm, rcv) ==
    IF rm.type = "error"
    THEN [err |-> Discarded(Err("app")), rcv |-> rcv]
    ELSE [err |-> NilErr, rcv |-> rm.val]

\* what rm.UnmarshalRESP(br) yields: a read error, or a raw message
ReadOutcomes ==
    {[err |-> Err("io"), rm |-> <<>>]} \cup {[err |-> NilErr, rm |-> <<r>>] : r \in Replies}

Receivers == {<<"old">>, <<>>}

NoCall == [called |-> FALSE, read |-> [err |-> NilErr, rm |-> <<>>], err |-> NilErr, into |-> <<>>,
           before |-> [Nil |-> FALSE, EmptyArray |-> FALSE, Rcv |-> <<>>]]

\* MaybeNil.UnmarshalRESP with the outcome of reading the raw message.
\* mnOut records the call: what was read, the error returned, the message
\* handed to UnmarshalInto (if any) and the MaybeNil as it was before.
MaybeNilUnmarshalRESP(read) ==
    LET rm   == read.rm[1]
        dec  == UnmarshalInto(rm, mn.Rcv)
        call == [called |-> TRUE, read |-> read, before |-> mn]
    IN
    /\ IF read.err # NilErr
       THEN /\ mn' = mn
            /\ mnOut' = call @@ [err |-> read.err, into |-> <<>>]
       ELSE IF IsNil(rm)
       THEN /\ mn' = [mn EXCEPT !.Nil = TRUE]
            /\ mnOut' = call @@ [err |-> NilErr, into |-> <<>>]
       ELSE IF IsEmptyArray(rm)
       THEN /\ mn' = [mn EXCEPT !.EmptyArray = TRUE, !.Rcv = dec.rcv]
            /\ mnOut' = call @@ [err |-> dec.err, into |-> <<rm>>]
       ELSE /\ mn' = [mn EXCEPT !.Rcv = dec.rcv]
            /\ mnOut' = call @@ [err |-> dec.err, into |-> <<rm>>]
    /\ UNCHANGED <<cmdVars, evalVars, pipeVars>>

MnInitWith(rcvs) ==
    /\ mn \in [Nil : {FALSE}, EmptyArray : {FALSE}, Rcv : rcvs]
    /\ mnOut = NoCall

MnInit == MnInitWith(Receivers)

MnNext == \E read \in ReadOutcomes : MaybeNilUnmarshalRESP(read)

----------------------------------------------------------------------------
(* Script action: EvalScript, evalAction. *)

\* largest declared key count of a script
MaxNumKeys == 1
\* longest call-argument list of a script action
MaxEvalArgs == 2
\* Perform calls made on one script action
MaxEvalPerforms == 2

EVALSHA  == <<"E","V","A","L","S","H","A">>
EVAL     == <<"E","V","A","L">>
NOSCRIPT == <<"N","O","S","C","R","I","P","T">>

Digits == <<"0","1","2","3","4","5","6","7","8","9">>

RECURSIVE Itoa(_)
\* strconv.Itoa of a natural number
Itoa(n) ==
    IF n < Len(Digits) THEN <<Digits[n + 1]>>
    ELSE Itoa(n \div Len(Digits)) \o <<Digits[(n % Len(Digits)) + 1]>>

\* hex(sha1(script)): an injective tag of the script text
Sha1Hex(script) == <<"s","h","a","1",":">> \o script

NewEvalScript(numKeys, script) ==
    [script |-> script, sum |-> Sha1Hex(script), numKeys |-> numKeys]

\* a request token: an array header or a bulk string
Header(n) == [hdr |-> TRUE, n |-> n, s |-> <<>>]
Bulk(s)   == [hdr |-> FALSE, n |-> Len(s), s |-> s]

\* tokens written by evalAction.MarshalRESP on a writer that accepts them all
EvalRequest(a) ==
    <<Header(3 + Len(a.args))>>
    \o (IF a.eval THEN <<Bulk(EVAL), Bulk(a.script)>> ELSE <<Bulk(EVALSHA), Bulk(a.sum)>>)
    \o <<Bulk(Itoa(a.numKeys))>>
    \o [n \in 1..Len(a.args) |-> Bulk(a.args[n])]

EvalKeys(a) == Slice(a.args, 0, a.numKeys)

\* error messages a submit of the script action returns; <<>> is a nil error
EvalMessages ==
    { NOSCRIPT \o <<" ","N","o">>,
      NOSCRIPT,
      SubSeq(NOSCRIPT, 1, Len(NOSCRIPT) - 1),
      <<"E","R","R"," ">> \o NOSCRIPT,
      ToLower(NOSCRIPT),
      <<"W","R","O","N","G">> }
EvalOutcomes == {<<>>} \cup {<<m>> : m \in EvalMessages}

\* err != nil && strings.HasPrefix(err.Error(), "NOSCRIPT")
IsCacheMiss(err) == err # <<>> /\ HasPrefix(err[1], NOSCRIPT)

Scripts == {<<"r">>}
EvalArgTokens == {<<"k">>, <<"v">>}

ZeroEval ==
    [script |-> <<>>, sum |-> <<>>, numKeys |-> 0, args |-> <<>>, rcv |-> "nil", eval |-> FALSE]

\* EvalScript.Cmd: panics (no action) with fewer arguments than numKeys
EvalScriptCmd(es, rcv, args) ==
    /\ epc.at = "new"
    /\ Len(args) >= es.numKeys
    /\ ec' = [script |-> es.script, sum |-> es.sum, numKeys |-> es.numKeys,
              args |-> args, rcv |-> rcv, eval |-> FALSE]
    /\ epc' = [epc EXCEPT !.at = "ready"]
    /\ UNCHANGED <<submits, evalErr, cmdVars, mnVars, pipeVars>>

\* run(eval) of evalAction.Perform, with the outcome of conn.EncodeDecode
Run(eval, outcome, log) ==
    /\ ec' = [ec EXCEPT !.eval = eval]
    /\ submits' = Append(log, [req |-> EvalRequest(ec'), out |-> outcome])
    /\ evalErr' = outcome

\* a Perform whose first attempt runs in the mode the action was left in
EvalPerformFirstKeepMode(outcome) ==
    /\ epc.at = "ready"
    /\ Run(ec.eval, outcome, <<>>)
    /\ epc' = [at |-> "ran", n |-> epc.n + 1, was |-> ec.eval]
    /\ UNCHANGED <<cmdVars, mnVars, pipeVars>>

\* evalAction.Perform up to the return of run(false); epc.was keeps the
\* mode flag the action had when Perform was entered
EvalPerformFirst(outcome) ==
    /\ epc.at = "ready"
    /\ Run(FALSE, outcome, <<>>)
    /\ epc' = [at |-> "ran", n |-> epc.n + 1, was |-> ec.eval]
    /\ UNCHANGED <<cmdVars, mnVars, pipeVars>>

\* the test after run(false): run(true) on a cache miss, and return err
EvalPerformRest(outcome) ==
    /\ epc.at = "ran"
    /\ IF IsCacheMiss(evalErr)
       THEN Run(TRUE, outcome, submits)
       ELSE UNCHANGED <<ec, submits, evalErr>>
    /\ epc' = [epc EXCEPT !.at = "done"]
    /\ UNCHANGED <<cmdVars, mnVars, pipeVars>>

\* the same script action is given to Perform again
EvalPerformAgain ==
    /\ epc.at = "done"
    /\ epc.n < MaxEvalPerforms
    /\ epc' = [epc EXCEPT !.at = "ready"]
    /\ UNCHANGED <<ec, submits, evalErr, cmdVars, mnVars, pipeVars>>

EvalInit ==
    /\ ec = ZeroEval
    /\ epc = [at |-> "new", n |-> 0, was |-> FALSE]
    /\ submits = <<>>
    /\ evalErr = <<>>

EvalNext ==
    \/ \E k \in 0..MaxNumKeys, s \in Scripts, args \in SeqsUpTo(EvalArgTokens, MaxEvalArgs) :
           EvalScriptCmd(NewEvalScript(k, s), "rcv", args)
    \/ \E o \in EvalOutcomes : EvalPerformFirst(o)
    \/ \E o \in EvalOutcomes : EvalPerformRest(o)
    \/ EvalPerformAgain

----------------------------------------------------------------------------
(* The pool of command actions: commands built, decoded and built again. *)

\* the arguments given to Cmd and to FlatCmd: receiver, name, (key,) arguments
PoolCmdInputs ==
    { <<"a", GET, << <<"k">> >> >>,
      <<"b", SET, << <<"k">>, <<"v">> >> >> }
PoolFlatCmdInputs ==
    { <<"a", GET, <<"k","1">>, <<>> >>,
      <<"b", SET, <<"k","2">>, << [elems |-> << <<"v">> >>, bad |-> FALSE] >> >> }

\* what resp2.Any{I: c.rcv}.UnmarshalRESP returns for the reply of c
PoolDecodeErrs == {NilErr, Err("app"), Discarded(Err("app"))}

\* cmdAction.UnmarshalRESP with the outcome of decoding into c.rcv
CmdUnmarshalRESP(err) ==
    /\ use.at = "built"
    /\ IF err # NilErr
       THEN /\ use' = [use EXCEPT !.at = "failed"]
            /\ UNCHANGED pool
       ELSE /\ pool' = Append(pool, c)
            /\ use' = [use EXCEPT !.at = "decoded"]
    /\ UNCHANGED <<c, keys, mnVars, evalVars, pipeVars>>

\* the action is done with and UnmarshalRESP was never called on it: the
\* pipeline it was in skipped its entry, or the submit failed before the read
DecodeSkipped ==
    /\ use.at = "built"
    /\ use' = [use EXCEPT !.at = "skipped"]
    /\ UNCHANGED <<c, keys, pool, mnVars, evalVars, pipeVars>>

PoolNext ==
    \/ /\ use.at # "built"
       /\ use.n < MaxBuilds
       /\ \E in \in PoolCmdInputs : Cmd(in[1], in[2], in[3])
    \/ /\ use.at # "built"
       /\ use.n < MaxBuilds
       /\ \E in \in PoolFlatCmdInputs : FlatCmd(in[1], in[2], in[3], in[4])
    \/ \E err \in PoolDecodeErrs : CmdUnmarshalRESP(err)
    \/ DecodeSkipped

----------------------------------------------------------------------------
(* Command marshaling. *)

RECURSIVE Flatten(_)
\* the bulk strings resp2.Any writes for flatArgs, up to the first argument
\* it cannot marshal
Flatten(args) ==
    IF args = <<>> \/ Head(args).bad THEN <<>>
    ELSE [n \in 1..Len(Head(args).elems) |-> Bulk(Head(args).elems[n])] \o Flatten(Tail(args))

RECURSIVE NumElems(_)
\* resp2.Any.NumElems over flatArgs
NumElems(args) ==
    IF args = <<>> THEN 0 ELSE Len(Head(args).elems) + NumElems(Tail(args))

\* tokens cmdAction.MarshalRESP hands to the writer, in order, until an
\* argument fails to encode
CmdRequest(a) ==
    IF a.flat
    THEN <<Header(2 + NumElems(a.flatArgs)), Bulk(a.cmd), Bulk(a.flatKey[1])>>
         \o Flatten(a.flatArgs)
    ELSE <<Header(Len(a.args) + 1), Bulk(a.cmd)>>
         \o [n \in 1..Len(a.args) |-> Bulk(a.args[n])]

\* a flattened argument that resp2.Any cannot marshal
EncodeFails(a) == a.flat /\ \E n \in 1..Len(a.flatArgs) : a.flatArgs[n].bad

\* cmdAction.MarshalRESP on a writer whose failAt-th write fails (0: none
\* fails): the tokens written and the error returned.  Once a write has
\* failed marshalBulkString passes the error on and writes nothing more.
CmdMarshalRESP(a, failAt) ==
    LET toks == CmdRequest(a) IN
    IF failAt \in 1..Len(toks)
    THEN [written |-> SubSeq(toks, 1, failAt - 1), err |-> Err("io")]
    ELSE IF EncodeFails(a)
    THEN [written |-> toks, err |-> Err("enc")]
    ELSE [written |-> toks, err |-> NilErr]

----------------------------------------------------------------------------
(* Pipeline. *)

\* most inner actions given to Pipeline
MaxCmds == 3
\* the most Perform calls made on one pipeline object, and the most inner
\* actions of a pipeline that is performed more than once
MaxPerforms == 2
MaxReuseCmds == 2

\* inner actions: a cmdAction, or another CmdAction implementation whose
\* Perform submits a pair without a marshaler ("readonly"), without an
\* unmarshaler ("writeonly"), or returns an error ("failing")
GetCmd  == CmdLit("rcv", GET, << <<"k">> >>)
SetCmd  == FlatCmdLit("rcv", SET, <<"k">>, << [elems |-> << <<"v">> >>, bad |-> FALSE] >>)
BadCmd  == FlatCmdLit("rcv", SET, <<"k">>, << [elems |-> << <<"x">> >>, bad |-> TRUE] >>)
PipeActions ==
    { [kind |-> "cmd", a |-> GetCmd],
      [kind |-> "cmd", a |-> SetCmd],
      [kind |-> "cmd", a |-> BadCmd],
      [kind |-> "readonly", a |-> ZeroCmd],
      [kind |-> "writeonly", a |-> GetCmd],
      [kind |-> "failing", a |-> ZeroCmd] }

\* errors of the real connection's EncodeDecode and of a failing inner Perform
ConnErrs == {Err("conn")}
InnerErrs == {Err("inner")}

\* pipelineMarshalerUnmarshaler: m holds the Marshaler (none: nil), u tells
\* whether the Unmarshaler is set
Pair(m, u) == [m |-> m, u |-> u, err |-> NilErr]

\* pipeline.EncodeDecode: the list after the append
PipelineEncodeDecode(list, m, u) == Append(list, Pair(m, u))

\* setErr recording on the entries up to startingAt
setErrUpTo(list, startingAt, err) ==
    [n \in 1..Len(list) |-> IF n - 1 <= startingAt THEN [list[n] EXCEPT !.err = err] ELSE list[n]]

\* setErr starting one entry late
setErrSkipFirst(list, startingAt, err) ==
    [n \in 1..Len(list) |-> IF n - 1 > startingAt THEN [list[n] EXCEPT !.err = err] ELSE list[n]]

\* setErr recording on the one entry only
setErrOnlyAt(list, startingAt, err) ==
    [n \in 1..Len(list) |-> IF n - 1 = startingAt THEN [list[n] EXCEPT !.err = err] ELSE list[n]]

\* pipeline.setErr on the list, with 0-based startingAt
setErr(list, startingAt, err) ==
    [n \in 1..Len(list) |-> IF n - 1 >= startingAt THEN [list[n] EXCEPT !.err = err] ELSE list[n]]

\* the error slots of the list
ErrsOf(list) == [n \in 1..Len(list) |-> list[n].err]

RECURSIVE ScanPlainOnly(_, _, _)
\* the loop passing over discarded-kind errors
ScanPlainOnly(list, n, acc) ==
    IF n > Len(list) THEN acc
    ELSE LET e == list[n].err IN
         IF e = NilErr \/ IsDiscarded(e) THEN ScanPlainOnly(list, n + 1, acc)
         ELSE ScanPlainOnly(list, n + 1, [err |-> e, allDiscarded |-> FALSE])

RECURSIVE ScanFirst(_, _, _)
\* the loop keeping the first error it meets
ScanFirst(list, n, acc) ==
    IF n > Len(list) THEN acc
    ELSE LET e == list[n].err IN
         IF e = NilErr THEN ScanFirst(list, n + 1, acc)
         ELSE ScanFirst(list, n + 1,
                        [err |-> IF acc.err = NilErr THEN e ELSE acc.err,
                         allDiscarded |-> IF ~IsDiscarded(e) THEN FALSE ELSE acc.allDiscarded])

RECURSIVE Scan(_, _, _)
\* the loop of Perform over p.mm: err and allDiscarded after the entries from n on
Scan(list, n, acc) ==
    IF n > Len(list) THEN acc
    ELSE LET e == list[n].err IN
         IF e = NilErr THEN Scan(list, n + 1, acc)
         ELSE Scan(list, n + 1,
                   [err |-> e,
                    allDiscarded |-> IF ~IsDiscarded(e) THEN FALSE ELSE acc.allDiscarded])

RECURSIVE UnwrapAlways(_, _)
\* the unwrapping loop without the allDiscarded test
UnwrapAlways(err, allDisc) ==
    IF err # NilErr /\ IsDiscarded(err) THEN UnwrapAlways(Cause(err), allDisc) ELSE err

RECURSIVE Unwrap(_, _)
\* the unwrapping loop of Perform
Unwrap(err, allDisc) ==
    IF err # NilErr /\ ~allDisc /\ IsDiscarded(err) THEN Unwrap(Cause(err), allDisc) ELSE err

\* Pipeline(cmds...) for an action list drawn from lists
PipeInitWith(lists) ==
    /\ cmds \in lists
    /\ mm = <<>>
    /\ Conn = "nil"
    /\ pc = "new"
    /\ i = 0
    /\ w = <<>>
    /\ marshalCalls = <<>>
    /\ decodeCalls = <<>>
    /\ connCalls = 0
    /\ outerErr = NilErr
    /\ passErrs = <<>>
    /\ perfErr = NilErr
    /\ allDiscarded = TRUE
    /\ marshalErrs = <<>>
    /\ performs = 0

PipeInit == PipeInitWith(SeqsUpTo(PipeActions, MaxCmds))

\* a return of Perform that leaves p.Conn as it is
ReturnKeepConn(err) ==
    /\ perfErr' = err
    /\ Conn' = Conn
    /\ pc' = "done"

\* the deferred p.Conn = nil and the return of Perform
Return(err) ==
    /\ perfErr' = err
    /\ Conn' = "nil"
    /\ pc' = "done"

\* Perform is called: p.Conn = c
PerformBegin ==
    /\ pc = "new"
    /\ Conn' = "c"
    /\ pc' = "inner"
    /\ i' = 0
    /\ performs' = performs + 1
    /\ UNCHANGED <<cmds, mm, w, marshalCalls, decodeCalls, connCalls, outerErr, passErrs,
                   perfErr, allDiscarded, marshalErrs, cmdVars, mnVars, evalVars>>

\* a variant that goes on to the next inner action when one returns an error
InnerPerformIgnoreErr ==
    /\ pc = "inner"
    /\ i < Len(cmds)
    /\ LET cmd == cmds[i + 1] IN
       IF cmd.kind = "failing"
       THEN /\ i' = i + 1
            /\ UNCHANGED <<mm, Conn, pc, perfErr>>
       ELSE /\ mm' = PipelineEncodeDecode(mm,
                        IF cmd.kind = "readonly" THEN <<>> ELSE <<cmd.a>>,
                        cmd.kind # "writeonly")
            /\ i' = i + 1
            /\ UNCHANGED <<Conn, pc, perfErr>>
    /\ UNCHANGED <<cmds, w, marshalCalls, decodeCalls, connCalls, outerErr, passErrs,
                   allDiscarded, marshalErrs, performs, cmdVars, mnVars, evalVars>>

\* one iteration of the loop over p.cmds: cmd.Perform(p)
InnerPerform ==
    /\ pc = "inner"
    /\ i < Len(cmds)
    /\ LET cmd == cmds[i + 1] IN
       IF cmd.kind = "failing"
       THEN /\ \E e \in InnerErrs : Return(e)
            /\ UNCHANGED <<mm, i>>
       ELSE /\ mm' = PipelineEncodeDecode(mm,
                        IF cmd.kind = "readonly" THEN <<>> ELSE <<cmd.a>>,
                        cmd.kind # "writeonly")
            /\ i' = i + 1
            /\ UNCHANGED <<Conn, pc, perfErr>>
    /\ UNCHANGED <<cmds, w, marshalCalls, decodeCalls, connCalls, outerErr, passErrs,
                   allDiscarded, marshalErrs, performs, cmdVars, mnVars, evalVars>>

\* c.EncodeDecode(p, p) is called on the real connection
Submit ==
    /\ pc = "inner"
    /\ i = Len(cmds)
    /\ connCalls' = connCalls + 1
    /\ pc' = "submit"
    /\ UNCHANGED <<cmds, mm, Conn, i, w, marshalCalls, decodeCalls, outerErr, passErrs,
                   perfErr, allDiscarded, marshalErrs, performs, cmdVars, mnVars, evalVars>>

\* the connection calls p.MarshalRESP(w)
MarshalBegin ==
    /\ pc = "submit"
    /\ pc' = "marshal"
    /\ i' = 0
    /\ UNCHANGED <<cmds, mm, Conn, w, marshalCalls, decodeCalls, connCalls, outerErr, passErrs,
                   perfErr, allDiscarded, marshalErrs, performs, cmdVars, mnVars, evalVars>>

\* a variant that returns on a marshal error without recording it
MarshalStepNoRecord ==
    /\ pc = "marshal"
    /\ IF i >= Len(mm)
       THEN /\ pc' = "written"
            /\ marshalErrs' = ErrsOf(mm)
            /\ UNCHANGED <<mm, i, w, marshalCalls>>
       ELSE IF mm[i + 1].m = <<>>
       THEN /\ i' = i + 1
            /\ UNCHANGED <<mm, pc, w, marshalCalls, marshalErrs>>
       ELSE \E failAt \in 0..Len(CmdRequest(mm[i + 1].m[1])) :
              LET res == CmdMarshalRESP(mm[i + 1].m[1], failAt) IN
              /\ marshalCalls' = Append(marshalCalls, i)
              /\ w' = w \o res.written
              /\ IF res.err = NilErr
                 THEN /\ i' = i + 1
                      /\ UNCHANGED <<mm, pc, marshalErrs>>
                 ELSE /\ marshalErrs' = ErrsOf(mm)
                      /\ pc' = "written"
                      /\ UNCHANGED <<mm, i>>
    /\ UNCHANGED <<cmds, Conn, decodeCalls, connCalls, outerErr, passErrs,
                   perfErr, allDiscarded, performs, cmdVars, mnVars, evalVars>>

\* one iteration of pipeline.MarshalRESP, or its return after the last
MarshalStep ==
    /\ pc = "marshal"
    /\ IF i >= Len(mm)
       THEN /\ pc' = "written"
            /\ marshalErrs' = ErrsOf(mm)
            /\ UNCHANGED <<mm, i, w, marshalCalls>>
       ELSE IF mm[i + 1].m = <<>>
       THEN /\ i' = i + 1
            /\ UNCHANGED <<mm, pc, w, marshalCalls, marshalErrs>>
       ELSE \E failAt \in 0..Len(CmdRequest(mm[i + 1].m[1])) :
              LET res == CmdMarshalRESP(mm[i + 1].m[1], failAt) IN
              /\ marshalCalls' = Append(marshalCalls, i)
              /\ w' = w \o res.written
              /\ IF res.err = NilErr
                 THEN /\ i' = i + 1
                      /\ UNCHANGED <<mm, pc, marshalErrs>>
                 ELSE /\ mm' = setErr(mm, i, res.err)
                      /\ marshalErrs' = ErrsOf(mm')
                      /\ pc' = "written"
                      /\ UNCHANGED i
    /\ UNCHANGED <<cmds, Conn, decodeCalls, connCalls, outerErr, passErrs,
                   perfErr, allDiscarded, performs, cmdVars, mnVars, evalVars>>

\* the connection flushed the write and calls p.UnmarshalRESP(br)
UnmarshalBegin ==
    /\ pc = "written"
    /\ pc' = "unmarshal"
    /\ i' = 0
    /\ UNCHANGED <<cmds, mm, Conn, w, marshalCalls, decodeCalls, connCalls, outerErr, passErrs,
                   perfErr, allDiscarded, marshalErrs, performs, cmdVars, mnVars, evalVars>>

\* a variant that decodes into entries that already carry an error
UnmarshalStepNoSkip(errs) ==
    /\ pc = "unmarshal"
    /\ IF i >= Len(mm)
       THEN /\ pc' = "read"
            /\ UNCHANGED <<mm, i, decodeCalls>>
       ELSE IF ~mm[i + 1].u
       THEN /\ i' = i + 1
            /\ UNCHANGED <<mm, pc, decodeCalls>>
       ELSE \E err \in {NilErr} \cup errs :
              /\ decodeCalls' = Append(decodeCalls, i)
              /\ IF err = NilErr
                 THEN /\ i' = i + 1
                      /\ UNCHANGED <<mm, pc>>
                 ELSE IF IsDiscarded(err)
                 THEN /\ mm' = [mm EXCEPT ![i + 1].err = err]
                      /\ i' = i + 1
                      /\ UNCHANGED pc
                 ELSE /\ mm' = setErr(mm, i, err)
                      /\ pc' = "read"
                      /\ UNCHANGED i
    /\ UNCHANGED <<cmds, Conn, w, marshalCalls, connCalls, outerErr, passErrs,
                   perfErr, allDiscarded, marshalErrs, performs, cmdVars, mnVars, evalVars>>

\* a variant that treats a discarded-kind decode error like any other
UnmarshalStepBreakAlways(errs) ==
    /\ pc = "unmarshal"
    /\ IF i >= Len(mm)
       THEN /\ pc' = "read"
            /\ UNCHANGED <<mm, i, decodeCalls>>
       ELSE IF ~mm[i + 1].u \/ mm[i + 1].err # NilErr
       THEN /\ i' = i + 1
            /\ UNCHANGED <<mm, pc, decodeCalls>>
       ELSE \E err \in {NilErr} \cup errs :
              /\ decodeCalls' = Append(decodeCalls, i)
              /\ IF err = NilErr
                 THEN /\ i' = i + 1
                      /\ UNCHANGED <<mm, pc>>
                 ELSE /\ mm' = setErr(mm, i, err)
                      /\ pc' = "read"
                      /\ UNCHANGED i
    /\ UNCHANGED <<cmds, Conn, w, marshalCalls, connCalls, outerErr, passErrs,
                   perfErr, allDiscarded, marshalErrs, performs, cmdVars, mnVars, evalVars>>

\* one iteration of pipeline.UnmarshalRESP, or its return after the last,
\* with the errors a decoder may return drawn from errs
UnmarshalStepWith(errs) ==
    /\ pc = "unmarshal"
    /\ IF i >= Len(mm)
       THEN /\ pc' = "read"
            /\ UNCHANGED <<mm, i, decodeCalls>>
       ELSE IF ~mm[i + 1].u \/ mm[i + 1].err # NilErr
       THEN /\ i' = i + 1
            /\ UNCHANGED <<mm, pc, decodeCalls>>
       ELSE \E err \in {NilErr} \cup errs :
              /\ decodeCalls' = Append(decodeCalls, i)
              /\ IF err = NilErr
                 THEN /\ i' = i + 1
                      /\ UNCHANGED <<mm, pc>>
                 ELSE IF IsDiscarded(err)
                 THEN /\ mm' = [mm EXCEPT ![i + 1].err = err]
                      /\ i' = i + 1
                      /\ UNCHANGED pc
                 ELSE /\ mm' = setErr(mm, i, err)
                      /\ pc' = "read"
                      /\ UNCHANGED i
    /\ UNCHANGED <<cmds, Conn, w, marshalCalls, connCalls, outerErr, passErrs,
                   perfErr, allDiscarded, marshalErrs, performs, cmdVars, mnVars, evalVars>>

\* the unmarshal pass of a pipeline whose decoders may return any error
UnmarshalStep == UnmarshalStepWith(Errs)

\* c.EncodeDecode(p, p) returns an error: before the write, at the flush,
\* or after the read.  Perform records it on every entry and returns it.
SubmitFails ==
    /\ pc \in {"submit", "written", "read"}
    /\ \E e \in ConnErrs :
         /\ outerErr' = e
         /\ passErrs' = ErrsOf(mm)
         /\ mm' = setErr(mm, 0, e)
         /\ Return(e)
    /\ UNCHANGED <<cmds, i, w, marshalCalls, decodeCalls, connCalls,
                   allDiscarded, marshalErrs, performs, cmdVars, mnVars, evalVars>>

\* c.EncodeDecode(p, p) returns nil; the loop of Perform over p.mm
Resolve ==
    /\ pc = "read"
    /\ LET res == Scan(mm, 1, [err |-> NilErr, allDiscarded |-> TRUE]) IN
       /\ perfErr' = res.err
       /\ allDiscarded' = res.allDiscarded
    /\ passErrs' = ErrsOf(mm)
    /\ pc' = "resolved"
    /\ UNCHANGED <<cmds, mm, Conn, i, w, marshalCalls, decodeCalls, connCalls, outerErr,
                   marshalErrs, performs, cmdVars, mnVars, evalVars>>

\* the unwrapping loop and the return of Perform
UnwrapReturn ==
    /\ pc = "resolved"
    /\ Return(Unwrap(perfErr, allDiscarded))
    /\ UNCHANGED <<cmds, mm, i, w, marshalCalls, decodeCalls, connCalls, outerErr, passErrs,
                   allDiscarded, marshalErrs, performs, cmdVars, mnVars, evalVars>>

PipeNext ==
    \/ PerformBegin
    \/ InnerPerform
    \/ Submit
    \/ MarshalBegin
    \/ MarshalStep
    \/ UnmarshalBegin
    \/ UnmarshalStep
    \/ SubmitFails
    \/ Resolve
    \/ UnwrapReturn

----------------------------------------------------------------------------
(* A pipeline object performed more than once.  Pipeline allocates p.mm once
   (line 462) and nothing in Perform empties it, so a later Perform appends
   to the entries of the earlier ones. *)

\* the inner actions and the decode errors of a pipeline that is reused
ReuseActions == {[kind |-> "cmd", a |-> GetCmd], [kind |-> "cmd", a |-> BadCmd],
                 [kind |-> "failing", a |-> ZeroCmd]}
ReuseErrs == {Err("app"), Discarded(Err("app"))}

\* Perform is called on a pipeline whose earlier Perform has returned: the
\* locals of the call start anew, p.cmds and p.mm are as they were left
PerformAgain ==
    /\ pc = "done"
    /\ performs < MaxPerforms
    /\ Conn' = "c"
    /\ pc' = "inner"
    /\ i' = 0
    /\ performs' = performs + 1
    /\ w' = <<>>
    /\ marshalCalls' = <<>>
    /\ decodeCalls' = <<>>
    /\ connCalls' = 0
    /\ outerErr' = NilErr
    /\ passErrs' = <<>>
    /\ marshalErrs' = <<>>
    /\ perfErr' = NilErr
    /\ allDiscarded' = TRUE
    /\ UNCHANGED <<cmds, mm, cmdVars, mnVars, evalVars>>

ReuseInit == PipeInitWith(SeqsUpTo(ReuseActions, MaxReuseCmds))

ReuseNext ==
    \/ PerformBegin
    \/ InnerPerform
    \/ Submit
    \/ MarshalBegin
    \/ MarshalStep
    \/ UnmarshalBegin
    \/ UnmarshalStepWith(ReuseErrs)
    \/ SubmitFails
    \/ Resolve
    \/ UnwrapReturn
    \/ PerformAgain

----------------------------------------------------------------------------
(* Specifications: one per component, the others at rest. *)

InitCmd      == CmdInit /\ MnInitWith({<<>>}) /\ EvalInit /\ PipeInitWith({<<>>})
InitMaybeNil == CmdInit /\ MnInit /\ EvalInit /\ PipeInitWith({<<>>})
InitEval     == CmdInit /\ MnInitWith({<<>>}) /\ EvalInit /\ PipeInitWith({<<>>})
InitPipeline == CmdInit /\ MnInitWith({<<>>}) /\ EvalInit /\ PipeInit

SpecCmd      == InitCmd /\ [][CmdNext]_vars
SpecMaybeNil == InitMaybeNil /\ [][MnNext]_vars
SpecEval     == InitEval /\ [][EvalNext]_vars
SpecPipeline == InitPipeline /\ [][PipeNext]_vars

InitReuse == CmdInit /\ MnInitWith({<<>>}) /\ EvalInit /\ ReuseInit
SpecReuse == InitReuse /\ [][ReuseNext]_vars

InitPool == CmdInit /\ MnInitWith({<<>>}) /\ EvalInit /\ PipeInitWith({<<>>})
SpecPool == InitPool /\ [][PoolNext]_vars
----------------------------------------------------------------------------
(* Properties of the pipeline, under SpecPipeline. *)

\* Perform has returned after a submit on the real connection that returned nil
SubmitSucceeded == pc = "done" /\ connCalls > 0 /\ outerErr = NilErr

\* the entries carrying an error, and those whose error is not discarded-kind
Failed == {n \in 1..Len(mm) : mm[n].err # NilErr}
NotDiscarded == {n \in Failed : mm[n].err.wrap = 0}

\* C1: when the single EncodeDecode on the real connection returns an error
\* e, Perform returns exactly e and every entry of the correlation list
\* carries exactly e, whatever the two passes had recorded on it.
C1_OuterErrorOverrides ==
    (pc = "done" /\ outerErr # NilErr) =>
        /\ perfErr = outerErr
        /\ \A n \in 1..Len(mm) : mm[n].err = outerErr

\* the connection failed after the read, with one entry decoded without
\* error, one carrying a discarded-kind error and one a marshal error
C1_Witness ==
    /\ pc = "done"
    /\ outerErr \in ConnErrs
    /\ decodeCalls # <<>>
    /\ \E n \in 1..Len(passErrs) : passErrs[n] = NilErr
    /\ \E n \in 1..Len(passErrs) : passErrs[n].wrap > 0
    /\ \E n \in 1..Len(passErrs) : passErrs[n] = Err("enc")
    /\ \A n \in 1..Len(mm) : mm[n].err = outerErr

RECURSIVE Concat(_)
\* the concatenation of a sequence of token sequences
Concat(seqs) == IF seqs = <<>> THEN <<>> ELSE Head(seqs) \o Concat(Tail(seqs))

\* the complete requests of the first k entries, in order
RequestsBefore(k) ==
    Concat([n \in 1..k |-> IF mm[n].m = <<>> THEN <<>> ELSE CmdRequest(mm[n].m[1])])

\* the marshal pass has ended on a failure: it broke out at index i
MarshalFailed == pc = "written" /\ i < Len(mm)

\* the statement of C2 but for the write, for a pass that broke out at k
C2_Slots(k) ==
    /\ \A n \in 1..k : mm[n].err = NilErr
    /\ mm[k + 1].err \in {Err("io"), Err("enc")}
    /\ \A n \in (k + 1)..Len(mm) : mm[n].err = mm[k + 1].err
    /\ marshalCalls # <<>>
    /\ marshalCalls[Len(marshalCalls)] = k
    /\ \A n \in 1..Len(marshalCalls) : marshalCalls[n] <= k

\* C2 as amended: when command k is the first whose marshal fails, with
\* error m, then at the end of the marshal pass entries 0..k-1 carry no
\* error, entries k..N-1 all carry m, marshal was invoked on no entry after
\* k, and the aggregate write holds the complete requests of commands
\* 0..k-1 followed only by the part of command k's request that its failed
\* marshal had already written (possibly nothing).
C2_MarshalFailure ==
    MarshalFailed =>
        /\ C2_Slots(i)
        /\ \E part \in 0..Len(CmdRequest(mm[i + 1].m[1])) :
               w = RequestsBefore(i) \o SubSeq(CmdRequest(mm[i + 1].m[1]), 1, part)

\* C2 as stated: the aggregate write contains only the requests of 0..k-1
C2_Original ==
    MarshalFailed => (C2_Slots(i) /\ w = RequestsBefore(i))

\* the second of three commands failed to marshal after a first request was written
C2_Witness ==
    /\ MarshalFailed
    /\ i = 1
    /\ Len(mm) = 3
    /\ w # <<>>
    /\ mm[1].err = NilErr
    /\ mm[2].err = Err("enc")
    /\ mm[3].err = Err("enc")

C4_AllDiscarded ==
    (SubmitSucceeded /\ Failed # {} /\ NotDiscarded = {}) =>
        /\ perfErr.wrap > 0
        /\ \E n \in Failed : perfErr = mm[n].err

\* every entry failed with a discarded-kind error, one of them doubly wrapped
C4_Witness ==
    /\ SubmitSucceeded
    /\ Len(mm) >= 2
    /\ Failed = 1..Len(mm)
    /\ NotDiscarded = {}
    /\ \E n \in Failed : mm[n].err.wrap = MaxWrap
    /\ perfErr.wrap > 0

\* the first non-nil recorded error, in list order
FirstRecorded ==
    IF Failed = {} THEN NilErr
    ELSE mm[CHOOSE n \in Failed : \A k \in Failed : n <= k].err

\* C5: when the submit succeeds, the error Perform resolves, before any
\* unwrapping, is the first non-nil error in correlation-list order.
C5_FirstError ==
    pc = "resolved" => perfErr = FirstRecorded
----------------------------------------------------------------------------
(* Properties of the script action, under SpecEval. *)

\* the message begins with the eight characters of the cache-miss marker
BeginsWithMarker(out) ==
    /\ out # <<>>
    /\ Len(out[1]) >= 8
    /\ <<out[1][1], out[1][2], out[1][3], out[1][4], out[1][5], out[1][6], out[1][7], out[1][8]>>
           = <<"N","O","S","C","R","I","P","T">>

\* the invocation a request carries: its command name and its second element
IsHashRequest(req) == req[2].s = EVALSHA /\ req[3].s = ec.sum
IsFullRequest(req) == req[2].s = EVAL /\ req[3].s = ec.script

\* C6: Perform of a script action submits the hash-based invocation once; it
\* submits the full-script invocation exactly once more if and only if the
\* first attempt returned an error whose message begins with NOSCRIPT; it
\* never makes more than two submits; it returns the outcome of the last
\* attempt made.
C6_RetryOnce ==
    /\ Len(submits) <= 2
    /\ epc.at = "ran" => Len(submits) = 1
    /\ epc.at = "done" =>
           /\ Len(submits) >= 1
           /\ IsHashRequest(submits[1].req)
           /\ Len(submits) = 2 <=> BeginsWithMarker(submits[1].out)
           /\ Len(submits) = 2 => IsFullRequest(submits[2].req)
           /\ evalErr = submits[Len(submits)].out

\* a cache miss with a longer message, then a second attempt that succeeds
C6_Witness ==
    /\ epc.at = "done"
    /\ Len(submits) = 2
    /\ Len(submits[1].out[1]) > Len(NOSCRIPT)
    /\ submits[2].out = <<>>
    /\ evalErr = <<>>

\* the request of one attempt: an array header counting the name, the
\* script or digest, the key count and every argument, then the key count
\* in decimal and the arguments in order
WellFormed(req) ==
    /\ Len(req) = 4 + Len(ec.args)
    /\ req[1] = Header(3 + Len(ec.args))
    /\ req[4].s = <<Digits[ec.numKeys + 1]>>
    /\ \A n \in 1..Len(ec.args) : req[4 + n] = Bulk(ec.args[n])

\* C20: every Perform of a script action starts in hash-based mode,
\* whatever mode an earlier Perform left the action in: the first request
\* of each Perform is the hash invocation carrying the digest.  The request
\* of every attempt is an array of 3 + len(args) elements with the key
\* count and all the arguments in order.
C20_StartsInHashMode ==
    epc.at \in {"ran", "done"} =>
        /\ Len(submits) >= 1
        /\ submits[1].req[2] = Bulk(EVALSHA)
        /\ submits[1].req[3] = Bulk(Sha1Hex(ec.script))
        /\ \A n \in 1..Len(submits) : WellFormed(submits[n].req)

\* the first attempt of a second Perform, after a Perform that fell back
\* to the full script, for a call with one key and one more argument
C20_Witness ==
    /\ epc.at = "ran"
    /\ epc.n = 2
    /\ epc.was
    /\ ~ec.eval
    /\ ec.numKeys = 1
    /\ Len(ec.args) = 2
    /\ Len(submits) = 1

----------------------------------------------------------------------------
(* Properties of Keys, under SpecCmd. *)

\* the spellings of a name that differ only in case, among those drawn
Spellings(name) == {name, ToLower(name), Capitalised(name)}
NoKeySpellings == UNION {Spellings(n) : n \in noKeyCmds}
StreamsSpellings == Spellings(STREAMS)

\* C7 as stated: for every command whose upper-cased name is in the no-key
\* set Keys() returns no keys, for both construction forms.
C7_Original ==
    (keys.called /\ c.cmd \in NoKeySpellings) => keys.val = <<>>

\* C7 as amended: for every command built by Cmd whose upper-cased name is
\* in the no-key set, Keys() returns no keys, for every argument list; a
\* command built by FlatCmd returns its one bound key, whatever its name.
C7_NoKeyCmds ==
    (keys.called /\ c.cmd \in NoKeySpellings) =>
        /\ ~c.flat => keys.val = <<>>
        /\ c.flat => keys.val = c.flatKey

\* a lower-case no-key command with four arguments, built by Cmd
C7_Witness ==
    /\ keys.called
    /\ ~c.flat
    /\ c.cmd = <<"e","v","a","l","s","h","a">>
    /\ Len(c.args) = 4
    /\ keys.val = <<>>

\* positions of the STREAMS token in an argument list
StreamsAt(args) == {n \in 1..Len(args) : args[n] \in StreamsSpellings}

\* the keys the stream-key rule names
StreamKeys(args) ==
    IF StreamsAt(args) = {} THEN <<>>
    ELSE LET p == CHOOSE n \in StreamsAt(args) : \A k \in StreamsAt(args) : n <= k
             r == [n \in 1..(Len(args) - p) |-> args[p + n]]
         IN  [n \in 1..(Len(r) - (Len(r) \div 2)) |-> r[n]]

\* C8: for XREAD and XREADGROUP, in any case, Keys() of a command built by
\* Cmd is none without a STREAMS token (in any case) and otherwise the
\* first len(r) - floor(len(r)/2) elements of r = args[i+1:], i the
\* position of the first STREAMS token; COUNT 2 STREAMS s1 s2 0 0 gives
\* [s1, s2].
C8_StreamKeys ==
    (keys.called /\ ~c.flat /\ c.cmd \in Spellings(XREAD) \cup Spellings(XREADGROUP)) =>
        /\ keys.val = StreamKeys(c.args)
        /\ c.args = ExampleStreamArgs => keys.val = << <<"s","1">>, <<"s","2">> >>

\* two STREAMS tokens and an odd remainder: the key run is the longer one
C8_Witness ==
    /\ keys.called
    /\ ~c.flat
    /\ c.cmd = ToLower(XREADGROUP)
    /\ c.args = << Capitalised(STREAMS), <<"s","1">>, STREAMS, <<"0">> >>
    /\ keys.val = << <<"s","1">>, STREAMS >>

\* C9: for a command built by Cmd, Keys() follows the table on the
\* upper-cased name: BITOP with more than one argument gives all arguments
\* but the first; XINFO gives the second argument only, none with fewer
\* than two; XGROUP with more than one argument gives the second only; a
\* command not otherwise listed (BITOP and XGROUP with at most one
\* argument included) gives its first argument only, none with no argument.
C9_RoutingTable ==
    (keys.called /\ ~c.flat) =>
        LET n == Len(c.args) IN
        /\ (c.cmd \in Spellings(BITOP) /\ n > 1) =>
               keys.val = [k \in 1..(n - 1) |-> c.args[k + 1]]
        /\ c.cmd \in Spellings(XINFO) =>
               keys.val = IF n < 2 THEN <<>> ELSE <<c.args[2]>>
        /\ (c.cmd \in Spellings(XGROUP) /\ n > 1) => keys.val = <<c.args[2]>>
        /\ (\/ c.cmd \in Spellings(GET) \cup Spellings(SET)
            \/ (c.cmd \in Spellings(BITOP) \cup Spellings(XGROUP) /\ n <= 1)) =>
               keys.val = IF n = 0 THEN <<>> ELSE <<c.args[1]>>

\* BITOP in lower case with a destination and two sources
C9_Witness ==
    /\ keys.called
    /\ ~c.flat
    /\ c.cmd = ToLower(BITOP)
    /\ c.args = << <<"0">>, <<"s","1">>, <<"0">> >>
    /\ keys.val = << <<"s","1">>, <<"0">> >>

----------------------------------------------------------------------------
(* Properties of MaybeNil, under SpecMaybeNil. *)

\* C10: a MaybeNil decode of one reply: on a nil bulk string or nil array it
\* sets Nil and leaves the receiver unmodified; on an empty array it sets
\* EmptyArray and still decodes the empty array into the receiver; on any
\* other reply it changes neither flag and decodes into the receiver; when
\* reading the raw reply fails it returns the error with both flags and the
\* receiver unchanged.
C10_MaybeNilDecode ==
    mnOut.called =>
        LET before == mnOut.before
            type   == mnOut.read.rm[1].type
        IN
        IF mnOut.read.err # NilErr
        THEN /\ mnOut.err = mnOut.read.err
             /\ mn = before
             /\ mnOut.into = <<>>
        ELSE IF type \in {"nilbulk", "nilarray"}
        THEN /\ mnOut.err = NilErr
             /\ mn.Nil
             /\ mn.EmptyArray = before.EmptyArray
             /\ mn.Rcv = before.Rcv
             /\ mnOut.into = <<>>
        ELSE IF type = "emptyarray"
        THEN /\ mnOut.err = NilErr
             /\ mn.EmptyArray
             /\ mn.Nil = before.Nil
             /\ mnOut.into = mnOut.read.rm
             /\ mn.Rcv = <<>>
        ELSE /\ mn.Nil = before.Nil
             /\ mn.EmptyArray = before.EmptyArray
             /\ mnOut.into = mnOut.read.rm
             /\ type # "error" => (mnOut.err = NilErr /\ mn.Rcv = mnOut.read.rm[1].val)

\* a nil array read into a MaybeNil whose receiver held a value
C10_Witness ==
    /\ mnOut.called
    /\ mnOut.read.err = NilErr
    /\ mnOut.read.rm[1].type = "nilarray"
    /\ mnOut.before.Rcv # <<>>
    /\ ~mnOut.before.Nil
    /\ mn.Nil
    /\ mn.Rcv = mnOut.before.Rcv
----------------------------------------------------------------------------
(* Properties of the pool of command actions, under SpecPool. *)

\* Cmd or FlatCmd returns a command action in this step
Built == use.at # "built" /\ use'.at = "built"

\* the action returned holds the arguments given and nothing else
HoldsGiven(a, form, given) ==
    /\ a.rcv = given[1]
    /\ a.cmd = given[2]
    /\ IF form = "Cmd"
       THEN /\ a.args = given[4]
            /\ ~a.flat
            /\ a.flatKey = << <<>> >>
            /\ a.flatArgs = <<>>
       ELSE /\ a.flat
            /\ a.flatKey = given[3]
            /\ a.flatArgs = given[4]
            /\ a.args = <<>>

\* what a step of the model may do to the pool and to the command built
C11_Step ==
    /\ (use.at = "built" /\ use'.at = "decoded") => pool' = Append(pool, c) /\ c' = c
    /\ (use.at = "built" /\ use'.at \in {"failed", "skipped"}) => pool' = pool
    /\ Len(pool') > Len(pool) => use.at = "built" /\ use'.at = "decoded"
    /\ Len(pool') < Len(pool) => Built /\ Len(pool') = Len(pool) - 1
    /\ Built => HoldsGiven(c', use'.form, use'.given)

\* C11: a command action is put into the pool in the step in which its own
\* decode succeeds and in no other: not when the decode fails, not when it
\* is skipped, and the pool changes otherwise only by Cmd or FlatCmd taking
\* one value out.  The command Cmd or FlatCmd returns, a new one or one
\* taken from the pool after any earlier use, holds the receiver, name, key
\* and arguments given to the call and has every other field reset.
C11_PoolRelease == [][C11_Step]_vars

\* a command built by Cmd from a pooled value that FlatCmd had filled
C11_Witness ==
    /\ use.at = "built"
    /\ use.form = "Cmd"
    /\ use.n = 3
    /\ Len(pool) = 1
    /\ pool[1].flat
    /\ pool[1].flatArgs # <<>>
    /\ c.rcv = "a"
    /\ ~c.flat

----------------------------------------------------------------------------
(* Properties of the aggregate unmarshal pass, under SpecPipeline. *)

\* the unmarshal pass is at entry i of the list
AtEntry == pc = "unmarshal" /\ i < Len(mm)

\* every entry but entry n is as it was
OthersUnchanged(n) ==
    /\ Len(mm') = Len(mm)
    /\ \A k \in 1..Len(mm) : k # n => mm'[k] = mm[k]

\* what a step of the model may do while the unmarshal pass runs and after it
C12_Step ==
    /\ AtEntry =>
         IF ~mm[i + 1].u \/ mm[i + 1].err # NilErr
         THEN /\ decodeCalls' = decodeCalls
              /\ mm' = mm
              /\ i' = i + 1
              /\ pc' = "unmarshal"
         ELSE /\ decodeCalls' = Append(decodeCalls, i)
              /\ \/ /\ mm' = mm
                    /\ i' = i + 1
                    /\ pc' = "unmarshal"
                 \/ /\ mm'[i + 1].err.wrap > 0
                    /\ mm'[i + 1].m = mm[i + 1].m
                    /\ mm'[i + 1].u = mm[i + 1].u
                    /\ OthersUnchanged(i + 1)
                    /\ i' = i + 1
                    /\ pc' = "unmarshal"
                 \/ /\ mm'[i + 1].err # NilErr
                    /\ mm'[i + 1].err.wrap = 0
                    /\ Len(mm') = Len(mm)
                    /\ \A k \in 1..Len(mm) :
                         IF k <= i THEN mm'[k] = mm[k]
                         ELSE /\ mm'[k].err = mm'[i + 1].err
                              /\ mm'[k].m = mm[k].m
                              /\ mm'[k].u = mm[k].u
                    /\ pc' = "read"
                    /\ i' = i
    /\ (pc = "unmarshal" /\ i >= Len(mm)) =>
         /\ pc' = "read"
         /\ mm' = mm
         /\ decodeCalls' = decodeCalls
    /\ pc = "unmarshal" => outerErr' = NilErr /\ perfErr' = NilErr
    /\ pc \in {"read", "resolved"} => decodeCalls' = decodeCalls

\* C12: the unmarshal pass visits the entries in order.  An entry with no
\* decode step or with a recorded error is skipped and no decoder is invoked
\* for it.  A discarded-kind decode error at index i is recorded on entry i
\* only and the pass goes on with i + 1.  Any other decode error at index i
\* is recorded on entry i and on every later entry, and the pass ends: no
\* decoder is invoked afterwards.  The pass itself reports no failure: it
\* ends with no error set for the connection or for Perform.
C12_UnmarshalPass == [][C12_Step]_vars

\* the pass skipped an entry, recorded a discarded-kind error on one entry
\* alone, and ended at a later entry on an error of another kind
C12_Witness ==
    /\ pc = "read"
    /\ i = 2
    /\ Len(mm) = 3
    /\ decodeCalls = <<1, 2>>
    /\ mm[1].err = NilErr
    /\ mm[2].err.wrap > 0
    /\ mm[3].err # NilErr /\ mm[3].err.wrap = 0

\* the entries on which the marshal pass left an error, and the first of them
MarshalErrAt == {n \in 1..Len(marshalErrs) : marshalErrs[n] # NilErr}
FirstMarshalErr == CHOOSE n \in MarshalErrAt : \A k \in MarshalErrAt : n <= k

\* the entries before n that carry an error that is not discarded-kind
PlainBefore(n) == {j \in 1..(n - 1) : mm[j].err # NilErr /\ mm[j].err.wrap = 0}

\* C13 as stated: if command k is the first to fail marshal with error m and
\* the outer submit succeeds, entries k..N-1 all carry m when Perform
\* returns, whatever the decode outcomes of the entries before k
C13_Original ==
    (SubmitSucceeded /\ MarshalErrAt # {}) =>
        \A n \in FirstMarshalErr..Len(mm) : mm[n].err = marshalErrs[FirstMarshalErr]

\* C13: if command k is the first to fail marshal with error m and the outer
\* submit succeeds, then no entry from k on is decoded, and when Perform
\* returns entries k..N-1 all carry m unless an entry j before k failed to
\* decode with an error that is not discarded-kind: then entries j..N-1,
\* those from k on included, all carry the error of entry j.
C13_MarshalErrorKept ==
    (SubmitSucceeded /\ MarshalErrAt # {}) =>
        LET k == FirstMarshalErr
            early == PlainBefore(k)
        IN  /\ \A n \in k..Len(mm) : \A d \in 1..Len(decodeCalls) : decodeCalls[d] # n - 1
            /\ IF early = {}
               THEN \A n \in k..Len(mm) : mm[n].err = marshalErrs[k]
               ELSE \E j \in early :
                      /\ \A other \in early : j <= other
                      /\ \E d \in 1..Len(decodeCalls) : decodeCalls[d] = j - 1
                      /\ marshalErrs[j] = NilErr
                      /\ \A n \in j..Len(mm) : mm[n].err = mm[j].err

\* the second of three commands failed to marshal and the decode error of
\* the first took the place of the marshal error on the second and third
C13_Witness ==
    /\ SubmitSucceeded
    /\ Len(mm) = 3
    /\ MarshalErrAt = {2, 3}
    /\ decodeCalls = <<0>>
    /\ mm[1].err = Err("app")
    /\ mm[3].err = Err("app")
    /\ marshalErrs[3] = Err("enc")

----------------------------------------------------------------------------
(* Requests and replies of one submit, under SpecPipeline. *)

\* the indexes of the entries whose request the marshal pass wrote in full,
\* and how many of them come before index idx
Written ==
    {marshalCalls[n] : n \in {k \in 1..Len(marshalCalls) :
                                  marshalErrs[marshalCalls[k] + 1] = NilErr}}
WrittenBefore(idx) == Cardinality({x \in Written : x < idx})

\* the j-th decoder invoked is the one of the entry that wrote the j-th request
Corresponds ==
    \A j \in 1..Len(decodeCalls) :
        /\ decodeCalls[j] \in Written
        /\ j - 1 = WrittenBefore(decodeCalls[j])

\* every registered pair has both a Marshaler and an Unmarshaler, as the
\* pair p.EncodeDecode(c, c) of a command action has
BothSet == \A n \in 1..Len(mm) : mm[n].m # <<>> /\ mm[n].u

\* C14 as stated: for every list of registered pairs, the number of replies
\* consumed before an entry's decoder is invoked equals the number of
\* requests written before its own request
C14_Original == decodeCalls # <<>> => Corresponds

\* C14: when every registered pair has both a Marshaler and an Unmarshaler,
\* the number of replies consumed before an entry's decoder is invoked
\* equals the number of requests written before its own request, and its own
\* request was written: the j-th reply is decoded by the entry that wrote
\* the j-th request, across skipped entries, discarded-kind errors and
\* marshal failures.
C14_Positional == (decodeCalls # <<>> /\ BothSet) => Corresponds

\* the third command failed to marshal, the first reply was discarded and
\* the second decoded by the second entry
C14_Witness ==
    /\ SubmitSucceeded
    /\ BothSet
    /\ Len(mm) = 3
    /\ MarshalErrAt = {3}
    /\ decodeCalls = <<0, 1>>
    /\ mm[1].err.wrap > 0
    /\ mm[2].err = NilErr

----------------------------------------------------------------------------
(* The order of the steps of Perform, under SpecPipeline. *)

\* no inner action of the pipeline returns an error
NoFailing == \A n \in 1..Len(cmds) : cmds[n].kind # "failing"

\* the pair the n-th inner action registers
Registered(n) ==
    Pair(IF cmds[n].kind = "readonly" THEN <<>> ELSE <<cmds[n].a>>,
         cmds[n].kind # "writeonly")

\* C15: while the inner actions are driven the pipeline is what they are
\* given, each has only appended its pair to the list, and nothing has been
\* done on the real connection: no submit, nothing written, no marshal and
\* no decode.  The submit on the real connection is invoked once per
\* Perform when every inner action registered without error, after all of
\* them, and never when an inner action returned an error.
C15_InnerBeforeSubmit ==
    /\ pc = "inner" =>
          /\ connCalls = 0
          /\ w = <<>>
          /\ marshalCalls = <<>>
          /\ decodeCalls = <<>>
          /\ Conn = "c"
          /\ Len(mm) = i
          /\ \A n \in 1..Len(mm) : mm[n] = Registered(n)
    /\ connCalls > 0 =>
          /\ connCalls = 1
          /\ NoFailing
          /\ Len(mm) = Len(cmds)
    /\ pc = "done" =>
          /\ NoFailing <=> connCalls = 1
          /\ ~NoFailing =>
                /\ connCalls = 0
                /\ perfErr \in InnerErrs
                /\ w = <<>>
                /\ marshalCalls = <<>>
                /\ decodeCalls = <<>>

\* the third inner action returned an error after two had registered
C15_Witness ==
    /\ pc = "done"
    /\ Len(cmds) = 3
    /\ cmds[3].kind = "failing"
    /\ Len(mm) = 2
    /\ connCalls = 0
    /\ perfErr \in InnerErrs

----------------------------------------------------------------------------
(* The recorded errors of one submit, under SpecPipeline. *)

\* the outer submit has been called and has not returned an error
SubmitRunning == connCalls > 0 /\ outerErr = NilErr

\* C17: in every state from the call of the outer submit on, while it has
\* not failed, the entries carrying an error that is not discarded-kind form
\* a suffix of the list and all carry the same error; so the last entry
\* carries such an error whenever any entry does.
C17_NonDiscardedSuffix ==
    SubmitRunning =>
        /\ \A n \in NotDiscarded : \A k \in n..Len(mm) :
               k \in NotDiscarded /\ mm[k].err = mm[n].err
        /\ NotDiscarded # {} => Len(mm) \in NotDiscarded

\* a discarded-kind error on the first entry, and one decode error of
\* another kind on the second and third in place of a marshal error
C17_Witness ==
    /\ SubmitSucceeded
    /\ Len(mm) = 3
    /\ mm[1].err.wrap > 0
    /\ NotDiscarded = {2, 3}
    /\ MarshalErrAt = {3}
    /\ decodeCalls = <<0, 1>>

\* C18: when the outer submit succeeds, Perform returns nil if and only if
\* no entry of the list carries an error when it returns.
C18_NilIffNoError ==
    SubmitSucceeded => (perfErr = NilErr <=> Failed = {})

\* Perform returned a discarded-kind error, the only error recorded
C18_Witness ==
    /\ SubmitSucceeded
    /\ Len(mm) = 3
    /\ Failed = {2}
    /\ mm[2].err.wrap > 0
    /\ perfErr = mm[2].err

----------------------------------------------------------------------------
(* Properties of a pipeline performed once or more, under SpecReuse. *)

\* no Perform of the pipeline is in progress
NotRunning == pc \in {"new", "done"}

\* C16: the pipeline is bound to the outer connection only while a Perform
\* call is running: p.Conn is unset before the first Perform and after each
\* Perform has returned, whether it returned an inner action's error, the
\* error of the outer submit, an error resolved from the entries, or nil.
C16_BindingCleared ==
    /\ NotRunning => Conn = "nil"
    /\ ~NotRunning => Conn = "c"
    /\ pc = "done" =>
          \/ connCalls = 0 /\ perfErr \in InnerErrs
          \/ connCalls = 1 /\ outerErr \in ConnErrs /\ perfErr = outerErr
          \/ connCalls = 1 /\ outerErr = NilErr

\* a second Perform of the pipeline returned the error of the outer submit
C16_Witness ==
    /\ pc = "done"
    /\ performs = 2
    /\ connCalls = 1
    /\ perfErr \in ConnErrs
    /\ Conn = "nil"

\* the pipeline was built from command actions only
AllCmds == \A n \in 1..Len(cmds) : cmds[n].kind = "cmd"

\* the marshal pass of the current Perform is about to visit its first entry
MarshalStarts == pc = "marshal" /\ i = 0

\* C19: on every Perform of a pipeline built from N command actions, the
\* second and later ones included, the list handed to the outer submit has
\* exactly N entries at the start of the marshal pass, the n-th being the
\* pair of the n-th command with an empty error slot: nothing of an
\* earlier Perform is in it.
C19_FreshList ==
    (MarshalStarts /\ AllCmds) =>
        /\ Len(mm) = Len(cmds)
        /\ \A n \in 1..Len(mm) : mm[n] = Pair(<<cmds[n].a>>, TRUE)

====
